---- MODULE Spec2Model ----
(***************************************************************************)
(* Model of the bank service's ledger code, src/bank_service/models.py:    *)
(* the two tables (bankaccount, accounttransaction) and the operations     *)
(* reset_accounts, create_or_update_transaction, update_balance,           *)
(* BankAccount.calculate_balance and retrieve_all_bank_accounts.           *)
(*                                                                         *)
(* Amounts and balances are Decimals, kept as integers counting hundredths *)
(* of a cent: a two-place decimal is a multiple of Cent, and the Decimal   *)
(* of a float that is not one (fake.py:15) lies off the multiples.         *)
(* The timestamp column is written by every insert and update but read by  *)
(* nothing; it is left out of the rows.                                    *)
(* The store behind the engine is chosen by the environment, not by the    *)
(* code: it is any of Databases, fixed for a run.                          *)
(*                                                                         *)
(* Spec     : startup (reset_accounts, one step per commit, before         *)
(*            anything is served) and the calls served afterwards, one     *)
(*            step per await, the steps of the calls interleaved.          *)
(* SpecConc : calls running as concurrent asyncio tasks; every await on    *)
(*            the database (a SELECT, a commit) is one atomic step, and    *)
(*            each call works on the rows its own session loaded.          *)
(* SpecRegistry : the bank registry, src/registry/models.py: the table     *)
(*            bank and register_bank, update_bank (concurrent calls, one   *)
(*            step per await), reset_banks and retrieve_all_banks.         *)
(***************************************************************************)
EXTENDS Integers, Sequences, FiniteSets, TLC

\* ---------------------------------------------------------------- bounds
MaxAccounts == 2      \* rows the bankaccount table may hold
MaxTxnIds == 2        \* transaction ids (UUIDs) in play
MaxAnnLen == 1        \* length of the annotation list of one call
NumProcs == 3         \* concurrent calls of SpecConc
MaxUpserts == 2       \* of which create_or_update_transaction calls
MaxServed == 2        \* calls served after startup in Spec
MaxBanks == 2         \* swift codes (and rows of the bank table) in play
MaxBankCalls == 2     \* registry calls in flight at a time

AccountIds == 1..MaxAccounts
AccountNumbers == 1..MaxAccounts
TxnIds == 1..MaxTxnIds
Procs == 1..NumProcs
Served == 1..MaxServed
BankIds == 1..(MaxBanks + 1)     \* one id more than swifts: uuid4 never runs out
Swifts == 1..MaxBanks
BankCalls == 1..MaxBankCalls

\* ------------------------------------------------------------ enumerations
ACTIVE == "active"
CANCELED == "canceled"
PENDING == "pending"
COMPLETED == "completed"

BankAccountStateType == {ACTIVE, CANCELED}
AccountTransactionStateType == {PENDING, COMPLETED, CANCELED}

\* ------------------------------------------------------------ input domains
Cent == 100          \* model units in 0.01, the resolution of the amount column

\* Amounts a caller passes: -1.00 and 50.00.
Amounts == {-10000, 500000}
\* Decimal(round(random.uniform(0, 10000), 2)): the Decimal of a float.  A
\* float that is exactly a two-place decimal (50.00), and one that is not:
\* the binary expansion nearest to 50.00 falls a little below it.
SeedBalances == {500000, 499999}
AnnotationEntries == {"a"}
Names == {"name"}
InitialDeposit == "Initial deposit"
Descriptions == {"d"}
BankNames == {"bank", "renamed"}
BankMetadata == {[country |-> "PE"], [country |-> "US"]}

RECURSIVE SeqsUpTo(_, _)
SeqsUpTo(S, n) ==
    IF n = 0 THEN {<< >>}
    ELSE LET shorter == SeqsUpTo(S, n - 1)
         IN shorter \cup {Append(s, x) : s \in shorter, x \in S}

AnnotationLists == SeqsUpTo(AnnotationEntries, MaxAnnLen)

\* ------------------------------------------------------------ outcomes
Ok == "ok"
NoResultFound == "NoResultFound"
IntegrityError == "IntegrityError"
SwiftAlreadyExistException == "SwiftAlreadyExistException"

VARIABLES
    accounts,        \* table bankaccount: a set of rows
    transactions,    \* table accounttransaction: a set of rows
    result,          \* Spec: the last call and how it ended
    pending,         \* Spec: accounts reset_accounts has still to seed
    proc,            \* SpecConc: each concurrent call's position and locals
    banks,           \* registry: table bank, a set of rows
    bank_calls,           \* SpecRegistry: each registry call's position and locals
    database         \* the store behind settings.database_url

vars == <<accounts, transactions, result, pending, proc, banks, bank_calls, database>>

\* ------------------------------------------------------------------ store
\* The engine is built from settings.database_url (config.py:8, app.py:31),
\* read from the environment, and the tables are created outside this code:
\* the source does not say which store runs, so the store is any of these.
\* keeps_digits: a NUMERIC without scale keeps every digit of a Decimal bound
\* to it (a dialect that binds Decimal natively); otherwise the Decimal is
\* bound as a float and read back at ten places, the expansion error of a
\* float gone.  checks_foreign_key: the foreign key of
\* accounttransaction.account_id is checked at each statement, not at the
\* commit or not at all.
Databases == [keeps_digits : BOOLEAN, checks_foreign_key : BOOLEAN]

\* ------------------------------------------------------------------ rows
BankAccount(id, name, account_number, state, balance) ==
    [id |-> id, name |-> name, account_number |-> account_number,
     state |-> state, balance |-> balance]

AccountTransaction(id, account_id, amount, state, annotations, description) ==
    [id |-> id, account_id |-> account_id, amount |-> amount, state |-> state,
     annotations |-> annotations, description |-> description]

\* uuid.uuid4: an id no row of the table carries (the least one, ids being
\* interchangeable); {} when the model's id pool is used up.
FreshIds(pool, rows) == pool \ {r.id : r \in rows}
uuid4(pool, rows) == CHOOSE i \in FreshIds(pool, rows) : \A j \in FreshIds(pool, rows) : i <= j

\* generate_bank_account: a name, a 16-digit number, a state and a balance,
\* all drawn at random.
generate_bank_account ==
    {[name |-> n, account_number |-> k, state |-> s, balance |-> b] :
        n \in Names, k \in AccountNumbers, s \in BankAccountStateType, b \in SeedBalances}

\* --------------------------------------------------------------- queries
\* Mutant: the where clause on account_number left out.
SelectAnyAccount(accts, account_number) == accts

\* select(BankAccount).where(BankAccount.account_number == account_number)
SelectAccountByNumber(accts, account_number) ==
    {a \in accts : a.account_number = account_number}

\* select(AccountTransaction).where(account_id == ..., id == ...)
SelectTransaction(txns, account_id, transaction_id) ==
    {t \in txns : t.account_id = account_id /\ t.id = transaction_id}

\* Mutant: the where clause on account_id left out, every row selected.
SelectAllTransactions(txns, account_id) == txns

\* select(AccountTransaction).where(AccountTransaction.account_id == self.id)
SelectTransactionsOf(txns, account_id) ==
    {t \in txns : t.account_id = account_id}

\* ScalarResult.one(): the row when there is exactly one, else it raises.
OneRaises(rows) == Cardinality(rows) # 1

\* Mutant: the loop without the CANCELED test, every row counted.
RECURSIVE SumLoopNoSkip(_, _)
SumLoopNoSkip(rows, balance) ==
    IF rows = {} THEN balance
    ELSE LET account_transaction == CHOOSE t \in rows : TRUE
         IN SumLoopNoSkip(rows \ {account_transaction},
                          balance + account_transaction.amount)

\* Mutant: the loop counting COMPLETED rows only, PENDING skipped too.
RECURSIVE SumLoopCompletedOnly(_, _)
SumLoopCompletedOnly(rows, balance) ==
    IF rows = {} THEN balance
    ELSE LET account_transaction == CHOOSE t \in rows : TRUE
         IN SumLoopCompletedOnly(rows \ {account_transaction},
                                 IF account_transaction.state # COMPLETED
                                 THEN balance
                                 ELSE balance + account_transaction.amount)

\* The loop of calculate_balance over the selected rows, CANCELED skipped.
RECURSIVE SumLoop(_, _)
SumLoop(rows, balance) ==
    IF rows = {} THEN balance
    ELSE LET account_transaction == CHOOSE t \in rows : TRUE
         IN SumLoop(rows \ {account_transaction},
                    IF account_transaction.state = CANCELED
                    THEN balance
                    ELSE balance + account_transaction.amount)

calculate_balance(txns, account_id) ==
    SumLoop(SelectTransactionsOf(txns, account_id), 0)

\* BankAccount.calculate_balance as a call on an account object: it reads the
\* transaction table only; the account table is not queried and nothing in
\* the method raises, so the call always returns a value.
calculate_balance_call(accts, txns, account_id) ==
    [outcome |-> Ok, balance |-> calculate_balance(txns, account_id)]

\* ---------------------------------------------------------------- writes
\* What the column amount keeps of a Decimal: max_digits=9, decimal_places=2,
\* the value rounded to two places.
StoredAmount(amount) == ((amount + Cent \div 2) \div Cent) * Cent

\* What the column balance keeps of a Decimal: the column is declared
\* `balance: Decimal`, a Numeric without scale, and the code rounds the
\* balance nowhere.  A store that keeps the digits keeps the value as
\* assigned; on the others the value is bound as a float and read back at
\* ten decimal places, where the expansion error of a float (below 10^-12
\* for a balance under 10000) is rounded away: what is read is the two-place
\* decimal the draw was rounded to.  The one model unit below the cent
\* stands for that expansion error.
StoredBalance(db, balance) ==
    IF db.keeps_digits THEN balance ELSE ((balance + Cent \div 2) \div Cent) * Cent

\* Mutant: the UPDATE without its WHERE id, every row rewritten.
FlushTransactionUpdateNoWhere(txns, loaded, amount, state, description) ==
    {[t EXCEPT !.amount = amount, !.state = state, !.description = description] :
        t \in txns}

\* The UPDATE a commit flushes for a loaded transaction row: only the columns
\* whose assigned value differs from the loaded one are SET.  amount, state
\* and description are assigned; annotations is a plain JSON column changed
\* in place by list.extend, an edit the session does not see, so the column
\* is never part of the UPDATE.
FlushTransactionUpdate(txns, loaded, amount, state, description) ==
    {IF t.id = loaded.id
     THEN [t EXCEPT !.amount = IF amount # loaded.amount THEN StoredAmount(amount) ELSE @,
                    !.state = IF state # loaded.state THEN state ELSE @,
                    !.description =
                        IF description # loaded.description THEN description ELSE @]
     ELSE t : t \in txns}

\* The INSERT a commit flushes for a new transaction row; id is the primary
\* key, a second row with the id is refused.
InsertRefused(rows, row) == \E r \in rows : r.id = row.id

\* Mutant: a new row built without the call's annotations (the column
\* default, an empty list, instead).
CommitTransactionDropsAnnotations(txns, bank_account, loaded, transaction_id, state, description, annotations, amount) ==
    IF loaded # {}
    THEN LET account_transaction == CHOOSE t \in loaded : TRUE
         IN [outcome |-> Ok,
             transactions |->
                 {IF t.id = account_transaction.id
                  THEN [t EXCEPT !.amount = amount, !.state = state,
                                 !.description = description]
                  ELSE t : t \in txns}]
    ELSE LET account_transaction ==
                 [id |-> transaction_id, account_id |-> bank_account.id,
                  amount |-> amount, state |-> state, annotations |-> << >>,
                  description |-> description]
         IN IF \E r \in txns : r.id = transaction_id
            THEN [outcome |-> IntegrityError, transactions |-> txns]
            ELSE [outcome |-> Ok,
                  transactions |-> txns \cup {account_transaction}]

\* The commit of create_or_update_transaction, given the rows its session
\* loaded: [outcome, transactions].
CommitTransaction(txns, bank_account, loaded, transaction_id, state, description, annotations, amount) ==
    IF loaded # {}
    THEN LET account_transaction == CHOOSE t \in loaded : TRUE
         IN [outcome |-> Ok,
             transactions |-> FlushTransactionUpdate(
                 txns, account_transaction, amount, state, description)]
    ELSE LET account_transaction ==
                 AccountTransaction(transaction_id, bank_account.id,
                                    StoredAmount(amount), state, annotations,
                                    description)
         IN IF InsertRefused(txns, account_transaction)
            THEN [outcome |-> IntegrityError, transactions |-> txns]
            ELSE [outcome |-> Ok,
                  transactions |-> txns \cup {account_transaction}]

\* Mutant: the computed balance added to the stored one instead of replacing it.
CommitBalanceAdds(accts, bank_account, balance) ==
    {IF a.id = bank_account.id THEN [a EXCEPT !.balance = @ + balance] ELSE a :
        a \in accts}

\* Mutant: the UPDATE without its WHERE id, every account's balance set.
CommitBalanceNoWhere(accts, bank_account, balance) ==
    {[a EXCEPT !.balance = balance] : a \in accts}

\* The commit of update_balance: UPDATE bankaccount SET balance WHERE id,
\* flushed only when the computed balance differs from the loaded one.
CommitBalance(accts, bank_account, balance) ==
    IF balance = bank_account.balance
    THEN accts
    ELSE {IF a.id = bank_account.id THEN [a EXCEPT !.balance = balance] ELSE a :
            a \in accts}

\* session.delete(row) of reset_accounts: AsyncSession.delete is a coroutine
\* function and the call is not awaited, so no row is marked deleted and the
\* commit that follows deletes nothing.
SessionDelete(rows, selected) == rows

\* The commit of one seeded account with its initial deposit: the unique
\* constraint on account_number refuses the pair.
SeedRefused(accts, account) ==
    \E a \in accts : a.account_number = account.account_number

\* The flush of the seeding commit: no relationship() links the two classes,
\* so the two INSERTs go out in the order of the mappers' names,
\* AccountTransaction before BankAccount, and the deposit's INSERT precedes
\* the row its account_id refers to: a store that checks the foreign key at
\* each statement refuses it, and the commit writes nothing.
ForeignKeyRefused(db) == db.checks_foreign_key


\* ------------------------------------------------- a concurrent call
\* Each call is one asyncio task with its own AsyncSession.  A step is one
\* await on the database; between two awaits of a call any other call may
\* run.  Calls are numbered in the order they start.  An argument is drawn
\* at the step that first reads it.
Call(pc, op, account_number, bank_account, transaction_id, loaded, balance, state, description, annotations, amount, outcome, fresh, alone) ==
    [pc |-> pc, op |-> op, account_number |-> account_number,
     bank_account |-> bank_account, transaction_id |-> transaction_id,
     loaded |-> loaded, balance |-> balance, state |-> state,
     description |-> description, annotations |-> annotations,
     amount |-> amount, outcome |-> outcome, fresh |-> fresh, alone |-> alone]

IdleCall == Call("idle", "none", 0, {}, 0, {}, 0, "", "", << >>, 0, Ok, FALSE, FALSE)


\* A registry call: its position, its operation, its payload, the rows its
\* session loaded and how it ended.
BankCall(pc, op, dto, loaded, outcome) ==
    [pc |-> pc, op |-> op, dto |-> dto, loaded |-> loaded, outcome |-> outcome]

IdleBankCall ==
    BankCall("idle", "none", [swift |-> 0, name |-> "", bank_metadata |-> [country |-> ""]], {}, Ok)

\* ------------------------------------------------------------------- Init
NoCall == [op |-> "none", outcome |-> Ok]

Init ==
    /\ accounts = {}
    /\ transactions = {}
    /\ result = NoCall
    /\ pending = 0
    /\ proc = [p \in Procs |-> IdleCall]
    /\ banks = {}
    /\ bank_calls = [p \in BankCalls |-> IdleBankCall]
    /\ database \in Databases

\* ------------------------------------------------- Spec: startup and calls
\* No call is between two of its awaits.
Quiet == \A p \in Procs : proc[p].pc \in {"idle", "done"}

\* reset_accounts, first commit: the clearing step.  reset_accounts runs in
\* the lifespan of the application, before it serves a call.
ResetClear(num_fake_accounts) ==
    /\ pending = 0
    /\ Quiet
    /\ Cardinality(accounts) + num_fake_accounts <= MaxAccounts
    /\ Cardinality(transactions) + num_fake_accounts <= MaxTxnIds
    /\ accounts' = SessionDelete(accounts, accounts)
    /\ transactions' = SessionDelete(transactions, transactions)
    /\ pending' = num_fake_accounts
    /\ result' = [op |-> "reset_accounts", outcome |-> Ok]
    /\ UNCHANGED <<proc, banks, bank_calls, database>>

\* Mutant: the seeding commit without session.add(account): the deposit row
\* alone is written.
ResetSeedDepositOnly(account_data) ==
    /\ pending > 0
    /\ transactions' = transactions \cup
          {AccountTransaction(uuid4(TxnIds, transactions), uuid4(AccountIds, accounts),
                              StoredAmount(account_data.balance), COMPLETED, << >>,
                              InitialDeposit)}
    /\ pending' = pending - 1
    /\ result' = [op |-> "reset_accounts", outcome |-> Ok]
    /\ UNCHANGED <<accounts, proc, banks, bank_calls, database>>

\* reset_accounts, one turn of the seeding loop: one commit.  The one Decimal
\* of account_data is assigned to the account's balance and to the deposit's
\* amount; each column keeps of it what the column keeps.  The commit is
\* refused, and the loop left by the exception, over a repeated
\* account_number or over the foreign key.
ResetSeed(account_data) ==
    /\ pending > 0
    /\ LET account == BankAccount(uuid4(AccountIds, accounts), account_data.name,
                                  account_data.account_number, account_data.state,
                                  account_data.balance)
           account_transaction ==
               AccountTransaction(uuid4(TxnIds, transactions), account.id,
                                  StoredAmount(account_data.balance), COMPLETED,
                                  << >>, InitialDeposit)
       IN IF SeedRefused(accounts, account) \/ ForeignKeyRefused(database)
          THEN /\ pending' = 0
               /\ result' = [op |-> "reset_accounts", outcome |-> IntegrityError]
               /\ UNCHANGED <<accounts, transactions>>
          ELSE /\ accounts' = accounts \cup
                      {[account EXCEPT !.balance = StoredBalance(database, account.balance)]}
               /\ transactions' = transactions \cup {account_transaction}
               /\ pending' = pending - 1
               /\ result' = [op |-> "reset_accounts", outcome |-> Ok]
    /\ UNCHANGED <<proc, banks, bank_calls, database>>

\* retrieve_all_bank_accounts: one SELECT, the rows returned as DTOs; nothing
\* is written.
retrieve_all_bank_accounts ==
    /\ pending = 0
    /\ result' = [op |-> "retrieve_all_bank_accounts", outcome |-> Ok]
    /\ UNCHANGED <<accounts, transactions, pending, proc, banks, bank_calls, database>>

\* ---------------------------------------------- the steps of a call
\* Calls are numbered in the order they start.
\* A call starts beside the calls in flight: an update_balance among them no
\* longer runs with nothing beside it.
Beside(calls, p) ==
    [q \in Procs |->
        IF q # p /\ calls[q].pc \notin {"idle", "done"}
        THEN [calls[q] EXCEPT !.alone = FALSE]
        ELSE calls[q]]

Starts(p) == proc[p].pc = "idle" /\ (IF p = 1 THEN TRUE ELSE proc[p - 1].pc # "idle")

Upserts == {p \in Procs : proc[p].op = "create_or_update_transaction"}

\* create_or_update_transaction, lines 149-157: the account SELECT and one().
UpsertSelectAccount(p, account_number) ==
    /\ Starts(p)
    /\ Cardinality(Upserts) < MaxUpserts
    /\ LET found == SelectAccountByNumber(accounts, account_number)
           call == [IdleCall EXCEPT !.op = "create_or_update_transaction",
                                    !.account_number = account_number]
       IN proc' = Beside([proc EXCEPT ![p] =
              IF OneRaises(found)
              THEN [call EXCEPT !.pc = "done", !.outcome = NoResultFound]
              ELSE [call EXCEPT !.pc = "select_transaction", !.bank_account = found]], p)
    /\ UNCHANGED <<accounts, transactions, result, pending, banks, bank_calls, database>>

\* lines 159-167: the transaction SELECT and first().
UpsertSelectTransaction(p, transaction_id) ==
    /\ proc[p].pc = "select_transaction"
    /\ LET bank_account == CHOOSE a \in proc[p].bank_account : TRUE
       IN proc' = [proc EXCEPT ![p] =
              [@ EXCEPT !.pc = "commit_transaction",
                        !.transaction_id = transaction_id,
                        !.loaded = SelectTransaction(transactions, bank_account.id,
                                                     transaction_id)]]
    /\ UNCHANGED <<accounts, transactions, result, pending, banks, bank_calls, database>>

\* A committed write to an account's ledger: the refreshes of that account
\* that have started are no longer ones that began after the last commit.
Outdated(calls, p, account_id) ==
    [q \in Procs |->
        IF q # p /\ calls[q].op = "update_balance"
           /\ \E a \in calls[q].bank_account : a.id = account_id
        THEN [calls[q] EXCEPT !.fresh = FALSE]
        ELSE calls[q]]

\* lines 168-185: the row is changed or built, added and committed.
UpsertCommit(p, state, description, annotations, amount) ==
    /\ proc[p].pc = "commit_transaction"
    /\ LET bank_account == CHOOSE a \in proc[p].bank_account : TRUE
           commit == CommitTransaction(transactions, bank_account, proc[p].loaded,
                                       proc[p].transaction_id, state, description,
                                       annotations, amount)
           call == [proc[p] EXCEPT !.pc = "done", !.state = state,
                                   !.description = description,
                                   !.annotations = annotations,
                                   !.amount = amount,
                                   !.outcome = commit.outcome]
       IN /\ transactions' = commit.transactions
          /\ proc' = IF commit.outcome = Ok
                     THEN Outdated([proc EXCEPT ![p] = call], p, bank_account.id)
                     ELSE [proc EXCEPT ![p] = call]
    /\ UNCHANGED <<accounts, result, pending, banks, bank_calls, database>>

\* update_balance, lines 189-197: the account SELECT and one().
RefreshSelectAccount(p, account_number) ==
    /\ Starts(p)
    /\ LET found == SelectAccountByNumber(accounts, account_number)
           call == [IdleCall EXCEPT !.op = "update_balance",
                                    !.account_number = account_number]
       IN proc' = Beside([proc EXCEPT ![p] =
              IF OneRaises(found)
              THEN [call EXCEPT !.pc = "done", !.outcome = NoResultFound]
              ELSE [call EXCEPT !.pc = "calculate_balance", !.bank_account = found,
                                !.fresh = TRUE,
                                !.alone = \A q \in Procs \ {p} :
                                              proc[q].pc \in {"idle", "done"}]], p)
    /\ UNCHANGED <<accounts, transactions, result, pending, banks, bank_calls, database>>

\* line 198: calculate_balance, a SELECT in a session of its own.
RefreshCalculate(p) ==
    /\ proc[p].pc = "calculate_balance"
    /\ LET bank_account == CHOOSE a \in proc[p].bank_account : TRUE
       IN proc' = [proc EXCEPT ![p] =
              [@ EXCEPT !.pc = "commit_balance",
                        !.balance = calculate_balance(transactions, bank_account.id)]]
    /\ UNCHANGED <<accounts, transactions, result, pending, banks, bank_calls, database>>

\* lines 199-200: the account is added and committed.
RefreshCommit(p) ==
    /\ proc[p].pc = "commit_balance"
    /\ LET bank_account == CHOOSE a \in proc[p].bank_account : TRUE
       IN accounts' = CommitBalance(accounts, bank_account, proc[p].balance)
    /\ proc' = [proc EXCEPT ![p] = [@ EXCEPT !.pc = "done"]]
    /\ UNCHANGED <<transactions, result, pending, banks, bank_calls, database>>

\* The three awaits of create_or_update_transaction, and of update_balance.
create_or_update_transaction(p, transaction_id, account_number, state, description, annotations, amount) ==
    \/ UpsertSelectAccount(p, account_number)
    \/ UpsertSelectTransaction(p, transaction_id)
    \/ UpsertCommit(p, state, description, annotations, amount)

update_balance(p, account_number) ==
    \/ RefreshSelectAccount(p, account_number)
    \/ RefreshCalculate(p)
    \/ RefreshCommit(p)

\* Spec: the application is started (reset_accounts, any number of times
\* while no call is in flight) and serves calls, whose steps interleave.
Next ==
    \/ \E num_fake_accounts \in 0..MaxAccounts : ResetClear(num_fake_accounts)
    \/ \E account_data \in generate_bank_account : ResetSeed(account_data)
    \/ retrieve_all_bank_accounts
    \/ \E p \in Served, account_number \in AccountNumbers :
          pending = 0 /\ UpsertSelectAccount(p, account_number)
    \/ \E p \in Served, transaction_id \in TxnIds :
          UpsertSelectTransaction(p, transaction_id)
    \/ \E p \in Served, state \in AccountTransactionStateType, description \in Descriptions, annotations \in AnnotationLists, amount \in Amounts :
          UpsertCommit(p, state, description, annotations, amount)
    \/ \E p \in Served, account_number \in AccountNumbers :
          pending = 0 /\ RefreshSelectAccount(p, account_number)
    \/ \E p \in Served : RefreshCalculate(p)
    \/ \E p \in Served : RefreshCommit(p)

Spec == Init /\ [][Next]_vars

\* --------------------------- SpecConc: concurrent calls on a seeded store
\* The stores the concurrent calls start from, both left by Spec:
\* reset_accounts with two accounts; reset_accounts with one account whose
\* deposit row a later create_or_update_transaction rewrote (no refresh yet).
SeededStore ==
    [accounts |-> {BankAccount(1, "name", 1, ACTIVE, 500000),
                   BankAccount(2, "name", 2, ACTIVE, 500000)},
     transactions |-> {AccountTransaction(1, 1, 500000, COMPLETED, << >>, InitialDeposit),
                       AccountTransaction(2, 2, 500000, COMPLETED, << >>, InitialDeposit)}]

RewrittenStore ==
    [accounts |-> {BankAccount(1, "name", 1, ACTIVE, 500000)},
     transactions |-> {AccountTransaction(1, 1, -10000, PENDING, << >>, "d")}]

InitConc ==
    /\ \E seeded \in {SeededStore, RewrittenStore} :
          /\ accounts = seeded.accounts
          /\ transactions = seeded.transactions
    /\ result = NoCall
    /\ pending = 0
    /\ proc = [p \in Procs |-> IdleCall]
    /\ banks = {}
    /\ bank_calls = [p \in BankCalls |-> IdleBankCall]
    /\ database \in {db \in Databases : ~ ForeignKeyRefused(db)}

NextConc ==
    \E p \in Procs :
        \/ \E account_number \in AccountNumbers : UpsertSelectAccount(p, account_number)
        \/ \E transaction_id \in TxnIds : UpsertSelectTransaction(p, transaction_id)
        \/ \E state \in AccountTransactionStateType, description \in Descriptions,
              annotations \in AnnotationLists, amount \in Amounts :
                UpsertCommit(p, state, description, annotations, amount)
        \/ \E account_number \in AccountNumbers : RefreshSelectAccount(p, account_number)
        \/ RefreshCalculate(p)
        \/ RefreshCommit(p)

SpecConc == InitConc /\ [][NextConc]_vars

\* ------------------------------------------ SpecRegistry: the bank registry
\* src/registry/models.py: the table bank and the operations on it.  Each
\* call is a coroutine with its own AsyncSession; a step is one await on the
\* database, and between the two awaits of a call any other call may run.
\* A finished call's slot takes the next call.
Bank(id, swift, name, bank_metadata) ==
    [id |-> id, swift |-> swift, name |-> name, bank_metadata |-> bank_metadata]

\* BankDTO: the payload of register_bank and update_bank.
BankDTO == [swift : Swifts, name : BankNames, bank_metadata : BankMetadata]

\* Mutant: a lookup that finds no row, as when the check for the swift is
\* left out.
SelectNoBank(rows, swift) == {}

\* select(Bank).where(Bank.swift == dto.swift)
SelectBankBySwift(rows, swift) == {b \in rows : b.swift = swift}

\* The INSERT of a bank row: id is the primary key and swift is unique, a
\* second row with either is refused.
BankInsertRefused(rows, row) ==
    \E b \in rows : b.id = row.id \/ b.swift = row.swift

\* The UPDATE a commit flushes for the loaded bank row, WHERE id: name and
\* bank_metadata are assigned, and only the columns whose assigned value
\* differs from the loaded one are SET.
FlushBankUpdate(rows, loaded, name, bank_metadata) ==
    {IF b.id = loaded.id
     THEN [b EXCEPT !.name = IF name # loaded.name THEN name ELSE @,
                    !.bank_metadata =
                        IF bank_metadata # loaded.bank_metadata
                        THEN bank_metadata ELSE @]
     ELSE b : b \in rows}

\* register_bank, lines 68-74: the SELECT by swift and the raise.
RegisterSelect(p, dto) ==
    /\ bank_calls[p].pc \in {"idle", "done"}
    /\ LET bank_results == SelectBankBySwift(banks, dto.swift)
           call == [IdleBankCall EXCEPT !.op = "register_bank", !.dto = dto]
       IN bank_calls' = [bank_calls EXCEPT ![p] =
              IF Cardinality(bank_results) > 0
              THEN [call EXCEPT !.pc = "done",
                                !.outcome = SwiftAlreadyExistException]
              ELSE [call EXCEPT !.pc = "register_commit"]]
    /\ UNCHANGED <<accounts, transactions, result, pending, proc, banks, database>>

\* register_bank, lines 75-77: the row is built, added and committed.
RegisterCommit(p) ==
    /\ bank_calls[p].pc = "register_commit"
    /\ LET dto == bank_calls[p].dto
           bank == Bank(uuid4(BankIds, banks), dto.swift, dto.name, dto.bank_metadata)
       IN IF BankInsertRefused(banks, bank)
          THEN /\ bank_calls' = [bank_calls EXCEPT ![p] =
                      [@ EXCEPT !.pc = "done", !.outcome = IntegrityError]]
               /\ UNCHANGED banks
          ELSE /\ banks' = banks \cup {bank}
               /\ bank_calls' = [bank_calls EXCEPT ![p] = [@ EXCEPT !.pc = "done"]]
    /\ UNCHANGED <<accounts, transactions, result, pending, proc, database>>

register_bank(p, dto) == RegisterSelect(p, dto) \/ RegisterCommit(p)

\* update_bank, lines 82-84: the SELECT by swift and one().
UpdateSelect(p, dto) ==
    /\ bank_calls[p].pc \in {"idle", "done"}
    /\ LET found == SelectBankBySwift(banks, dto.swift)
           call == [IdleBankCall EXCEPT !.op = "update_bank", !.dto = dto]
       IN bank_calls' = [bank_calls EXCEPT ![p] =
              IF OneRaises(found)
              THEN [call EXCEPT !.pc = "done", !.outcome = NoResultFound]
              ELSE [call EXCEPT !.pc = "update_commit", !.loaded = found]]
    /\ UNCHANGED <<accounts, transactions, result, pending, proc, banks, database>>

\* update_bank, lines 85-88: the two columns are assigned, the row is added
\* and committed.
UpdateCommit(p) ==
    /\ bank_calls[p].pc = "update_commit"
    /\ LET bank == CHOOSE b \in bank_calls[p].loaded : TRUE
       IN banks' = FlushBankUpdate(banks, bank, bank_calls[p].dto.name,
                                   bank_calls[p].dto.bank_metadata)
    /\ bank_calls' = [bank_calls EXCEPT ![p] = [@ EXCEPT !.pc = "done", !.loaded = {}]]
    /\ UNCHANGED <<accounts, transactions, result, pending, proc, database>>

update_bank(p, dto) == UpdateSelect(p, dto) \/ UpdateCommit(p)

\* reset_banks: the rows are selected and session.delete is called on each
\* without being awaited, as in reset_accounts; the commit deletes nothing.
reset_banks ==
    /\ banks' = SessionDelete(banks, banks)
    /\ result' = [op |-> "reset_banks", outcome |-> Ok]
    /\ UNCHANGED <<accounts, transactions, pending, proc, bank_calls, database>>

\* retrieve_all_banks: one SELECT, the rows returned as DTOs.
retrieve_all_banks ==
    /\ result' = [op |-> "retrieve_all_banks", outcome |-> Ok]
    /\ UNCHANGED <<accounts, transactions, pending, proc, banks, bank_calls, database>>

NextRegistry ==
    \/ \E p \in BankCalls, dto \in BankDTO : RegisterSelect(p, dto)
    \/ \E p \in BankCalls : RegisterCommit(p)
    \/ \E p \in BankCalls, dto \in BankDTO : UpdateSelect(p, dto)
    \/ \E p \in BankCalls : UpdateCommit(p)
    \/ reset_banks
    \/ retrieve_all_banks

\* The registry runs on a database of its own (src/registry/config.py) with
\* neither a Decimal column nor a foreign key; the bank service's store plays
\* no part in it.
InitRegistry ==
    /\ Init
    /\ database = [keeps_digits |-> FALSE, checks_foreign_key |-> FALSE]

SpecRegistry == InitRegistry /\ [][NextRegistry]_vars

\* =============================================================== claims
\* The sum a ledger owes an account, stated without the loop: every amount
\* value times the number of the account's non-canceled rows carrying it.
RECURSIVE SumOfValues(_, _)
SumOfValues(values, rows) ==
    IF values = {} THEN 0
    ELSE LET v == CHOOSE x \in values : \A y \in values : x <= y
         IN v * Cardinality({t \in rows : t.amount = v})
            + SumOfValues(values \ {v}, rows)

Counted(txns, account_id) ==
    {t \in txns : t.account_id = account_id /\ t.state \in {PENDING, COMPLETED}}

LedgerSum(txns, account_id) ==
    SumOfValues({t.amount : t \in Counted(txns, account_id)}, Counted(txns, account_id))

AccountOfNumber(account_number) ==
    {a \in accounts : a.account_number = account_number}

\* The call that takes the step, the first step of a call of an operation,
\* and the step a call takes from a position.
Acts(p) == proc'[p].pc # proc[p].pc
Enters(p, op) == proc[p].pc = "idle" /\ Acts(p) /\ proc'[p].op = op
StepAt(p, at) == proc[p].pc = at /\ Acts(p)

\* A call that resolved its account and has returned or raised.
Committed(p, op) ==
    proc[p].op = op /\ proc[p].pc = "done" /\ proc[p].bank_account # {}

\* C1: for every account and every ledger the program reaches,
\* calculate_balance returns the sum of amount over the account's own rows
\* whose state is not CANCELED, and zero when there is no such row.
C1_BalanceIsLedgerSum ==
    \A id \in AccountIds :
        /\ calculate_balance(transactions, id) = LedgerSum(transactions, id)
        /\ Counted(transactions, id) = {} => calculate_balance(transactions, id) = 0

\* C1 witness: update_balance has stored the balance of an account that holds
\* a CANCELED row and a counted row, while another account's ledger exists or
\* not; the stored balance is the counted row's amount alone.
C1_Witness ==
    /\ \E p \in Procs : Committed(p, "update_balance") /\ proc[p].balance = -10000
    /\ \E a \in accounts :
          /\ \E t \in transactions :
                t.account_id = a.id /\ t.state = CANCELED /\ t.amount = 500000
          /\ \E t \in transactions :
                t.account_id = a.id /\ t.state = PENDING /\ t.amount = -10000
          /\ a.balance = -10000

\* C2 (as claimed): the commit of an upsert that found the id under the
\* resolved account keeps the number of rows, the row's id and account_id,
\* sets amount, state and description to the call's, and leaves the row's
\* annotations equal to the previous list followed by the call's annotations.
C2_UpsertExistingAppends ==
    [][\A p \in Procs :
        (StepAt(p, "commit_transaction") /\ proc[p].loaded # {}) =>
            \A a \in proc[p].bank_account :
                \A t \in SelectTransaction(transactions, a.id, proc[p].transaction_id) :
                    /\ Cardinality(transactions') = Cardinality(transactions)
                    /\ \E u \in transactions' :
                          /\ u.id = t.id
                          /\ u.account_id = t.account_id
                          /\ u.amount = proc'[p].amount
                          /\ u.state = proc'[p].state
                          /\ u.description = proc'[p].description
                          /\ u.annotations = t.annotations \o proc'[p].annotations]_vars

\* C3 (as claimed): an upsert with an existing account_number and an id that
\* does not exist under that account succeeds, adds exactly one row carrying
\* the id, retrievable by (account, id), also when the id exists under a
\* different account.
C3_UpsertNewAlwaysCreates ==
    [][\A p \in Procs :
        StepAt(p, "commit_transaction") =>
            \A a \in proc[p].bank_account :
                SelectTransaction(transactions, a.id, proc[p].transaction_id) = {} =>
                    /\ proc'[p].outcome = Ok
                    /\ Cardinality(transactions') = Cardinality(transactions) + 1
                    /\ SelectTransaction(transactions', a.id, proc[p].transaction_id) # {}]_vars

\* C3 (amended): an upsert with an existing account_number that found no row
\* under (account, id) succeeds exactly when no transaction of any account
\* carries the id at its commit: it adds exactly one row, the call's own
\* (id, account, amount, state, annotations, description), which is
\* retrievable by (account, id); when a transaction carries the id, one of a
\* different account or one committed since the call looked, the call fails
\* with an integrity error and the tables are left as they were.
C3_UpsertNewCreatesUnlessIdTaken ==
    [][\A p \in Procs :
        (StepAt(p, "commit_transaction") /\ proc[p].loaded = {}) =>
            \A a \in proc[p].bank_account :
                IF \E t \in transactions : t.id = proc[p].transaction_id
                THEN /\ proc'[p].outcome = IntegrityError
                     /\ transactions' = transactions
                     /\ accounts' = accounts
                ELSE /\ proc'[p].outcome = Ok
                     /\ transactions' = transactions \cup
                           {AccountTransaction(proc[p].transaction_id, a.id,
                                               proc'[p].amount, proc'[p].state,
                                               proc'[p].annotations,
                                               proc'[p].description)}
                     /\ accounts' = accounts
                     /\ Cardinality(transactions') = Cardinality(transactions) + 1
                     /\ \E u \in SelectTransaction(transactions', a.id, proc[p].transaction_id) :
                           u.id = proc[p].transaction_id]_vars

\* C3 witness: an upsert that found no row has succeeded and its row, one that
\* only an insert of create_or_update_transaction writes (annotations given),
\* is in the table, and another has been refused over an id in use.
C3_Witness ==
    /\ \E p \in Procs :
          /\ Committed(p, "create_or_update_transaction")
          /\ proc[p].loaded = {} /\ proc[p].outcome = Ok
          /\ \E t \in transactions :
                /\ t.id = proc[p].transaction_id
                /\ t.annotations = <<"a">> /\ t.description = "d"
    /\ \E q \in Procs :
          /\ Committed(q, "create_or_update_transaction")
          /\ proc[q].outcome = IntegrityError

\* C4: an upsert with an account_number that matches no account fails with
\* the not-found error of one() at its first step, its only one, and leaves
\* both tables as they were.
C4_UpsertUnknownAccountFails ==
    [][\A p \in Procs :
        (/\ Enters(p, "create_or_update_transaction")
         /\ AccountOfNumber(proc'[p].account_number) = {})
        => /\ proc'[p].pc = "done"
           /\ proc'[p].outcome = NoResultFound
           /\ accounts' = accounts
           /\ transactions' = transactions]_vars

\* C4 witness: an upsert has ended in NoResultFound while an account and its
\* ledger exist.
C4_Witness ==
    /\ \E p \in Procs :
          /\ proc[p].op = "create_or_update_transaction"
          /\ proc[p].pc = "done"
          /\ proc[p].outcome = NoResultFound
    /\ accounts # {}
    /\ transactions # {}

\* C5: when update_balance commits for an existing account, no other call
\* having run beside it, the call succeeds and the account's balance field
\* is the sum of its non-canceled transactions' amounts over the current
\* ledger.
C5_RefreshStoresLedgerSum ==
    [][\A p \in Procs :
        (StepAt(p, "commit_balance") /\ proc[p].alone) =>
            /\ proc'[p].pc = "done"
            /\ proc'[p].outcome = Ok
            /\ \A a \in proc[p].bank_account :
                  \E b \in accounts' :
                      /\ b.id = a.id
                      /\ b.balance = LedgerSum(transactions', a.id)]_vars

\* C5 witness: the refresh, run alone after an upsert added a PENDING -10000
\* (-1.00) row to an account holding a COMPLETED 500000 (50.00) row, has
\* stored 490000.
C5_Witness ==
    \E p \in Procs :
        /\ Committed(p, "update_balance") /\ proc[p].alone
        /\ \E a \in accounts :
              /\ a.account_number = proc[p].account_number
              /\ a.balance = 490000
              /\ \E t \in transactions :
                    t.account_id = a.id /\ t.state = COMPLETED /\ t.amount = 500000
              /\ \E t \in transactions :
                    /\ t.account_id = a.id /\ t.state = PENDING
                    /\ t.amount = -10000 /\ t.description = "d"

\* C6 (as claimed): in every reachable state every account's stored balance
\* equals the calculator's result over its current ledger.
C6_BalanceAlwaysCurrent ==
    \A a \in accounts : a.balance = LedgerSum(transactions, a.id)

\* The calls that commit at this step for the account of a row.
CommitsFor(b, at) ==
    {p \in Procs : StepAt(p, at) /\ \E a \in proc[p].bank_account : a.id = b.id}

\* C6 (amended): an account's stored balance equals the calculator's result
\* over its current ledger right after the commit of an update_balance for it
\* that no other call ran beside; an equal balance stays equal through every
\* step that is not a commit of a create_or_update_transaction or of an
\* update_balance for that account; the commit of a
\* create_or_update_transaction leaves the balance as it was, stale when the
\* ledger's sum has changed, until the next such update_balance.
C6_BalanceCurrentSinceRefresh ==
    [][\A b \in accounts' :
        /\ (\E p \in CommitsFor(b, "commit_balance") : proc[p].alone)
           => b.balance = LedgerSum(transactions', b.id)
        /\ (/\ \E a \in accounts :
                  a.id = b.id /\ a.balance = LedgerSum(transactions, a.id)
            /\ CommitsFor(b, "commit_balance") = {}
            /\ CommitsFor(b, "commit_transaction") = {})
           => b.balance = LedgerSum(transactions', b.id)
        /\ CommitsFor(b, "commit_transaction") # {} => b \in accounts]_vars

\* C6 witness: a refresh run alone has brought a balance that an upsert had
\* left stale back to the ledger's sum, a value no seeding writes.
C6_Witness ==
    \E p \in Procs :
        /\ Committed(p, "update_balance") /\ proc[p].alone
        /\ \E a \in accounts :
              /\ a.account_number = proc[p].account_number
              /\ a.balance = LedgerSum(transactions, a.id)
              /\ a.balance \notin SeedBalances
              /\ Cardinality(SelectTransactionsOf(transactions, a.id)) = 2

\* A retrieve_all_bank_accounts, by what it leaves in result.
RetrieveStep == result'.op = "retrieve_all_bank_accounts" /\ proc' = proc

\* C7: only the commit of update_balance changes the row of an existing
\* account, and it changes the balance of the account it resolved, to the sum
\* it calculated, and nothing else; the steps of
\* create_or_update_transaction, the calculator (which only reads) and
\* retrieve_all_bank_accounts leave every account row as it was.
C7_OnlyRefreshWritesBalance ==
    [][/\ \A a \in accounts :
            \/ a \in accounts'
            \/ \E p \in Procs :
                  /\ StepAt(p, "commit_balance")
                  /\ \E c \in proc[p].bank_account : c.id = a.id
                  /\ accounts' = (accounts \ {a}) \cup
                        {[a EXCEPT !.balance = proc[p].balance]}
       /\ \A p \in Procs :
            (Acts(p) /\ (proc'[p].op = "create_or_update_transaction"
                         \/ proc[p].pc = "calculate_balance"))
            => accounts' = accounts
       /\ RetrieveStep => accounts' = accounts
      ]_vars

\* C7 witness: an upsert has changed an account's ledger and left the stored
\* balance behind, and a refresh of another account has completed.
C7_Witness ==
    /\ \E p \in Procs :
          /\ Committed(p, "create_or_update_transaction") /\ proc[p].outcome = Ok
          /\ \E a \in proc[p].bank_account :
                \E b \in accounts :
                    b.id = a.id /\ b.balance # calculate_balance(transactions, a.id)
                    /\ b.balance = 500000
    /\ \E q \in Procs :
          Committed(q, "update_balance") /\ Cardinality(accounts) = 2

\* ------------------------------------------------ claims on reset_accounts
\* The clearing commit of reset_accounts, by the step that takes it.
ClearStep == pending = 0 /\ result'.op = "reset_accounts" /\ proc' = proc

\* One turn of the seeding loop of reset_accounts.
SeedStep == pending > 0 /\ result'.op = "reset_accounts"

\* C11 (as claimed): the clearing commit of reset_accounts removes every
\* account and every transaction that existed before it, both tables in the
\* one commit: after it no pre-existing row remains in either table.
C11_ResetClearsBothTables ==
    [][ClearStep =>
        /\ accounts' \cap accounts = {}
        /\ transactions' \cap transactions = {}
        /\ (accounts' = {}) <=> (transactions' = {})]_vars

\* C12: in every reachable state every transaction's account_id is the id of
\* an account that is in the account table.
C12_TransactionsReferenceAccounts ==
    \A t \in transactions : \E a \in accounts : a.id = t.account_id

\* C12 witness: after a reset and an upsert that inserted a row, the ledger
\* holds a seeded deposit and an inserted row, each under an existing account.
C12_Witness ==
    /\ \E p \in Procs :
          /\ Committed(p, "create_or_update_transaction")
          /\ proc[p].loaded = {} /\ proc[p].outcome = Ok
    /\ \E t \in transactions : t.description = InitialDeposit
    /\ \E t \in transactions : t.annotations = <<"a">> /\ t.state = CANCELED

MissingAccountIds == AccountIds \ {a.id : a \in accounts}

\* C13 (as claimed): the calculator invoked for an account that is not in
\* the store fails with the not-found error instead of returning a value.
C13_CalculatorFailsOnMissingAccount ==
    \A id \in MissingAccountIds :
        calculate_balance_call(accounts, transactions, id).outcome = NoResultFound

\* C13 (amended): the calculator invoked for an account that is not in the
\* store does not fail; it returns the sum over the rows carrying the
\* account's id, which is zero, no transaction referencing a missing account.
\* The not-found error for a missing account is raised by update_balance's
\* lookup by account_number, before the calculator is invoked, and leaves
\* the tables as they were.
C13_CalculatorReturnsZeroOnMissingAccount ==
    [][/\ \A id \in MissingAccountIds :
            calculate_balance_call(accounts, transactions, id) = [outcome |-> Ok, balance |-> 0]
       /\ \A p \in Procs :
            (/\ Enters(p, "update_balance")
             /\ AccountOfNumber(proc'[p].account_number) = {})
            => /\ proc'[p].pc = "done"
               /\ proc'[p].outcome = NoResultFound
               /\ UNCHANGED <<accounts, transactions>>]_vars

\* C13 witness: update_balance has ended in NoResultFound for a missing
\* account while another account and its ledger exist.
C13_Witness ==
    /\ \E p \in Procs :
          /\ proc[p].op = "update_balance" /\ proc[p].pc = "done"
          /\ proc[p].outcome = NoResultFound
    /\ MissingAccountIds # {}
    /\ \E t \in transactions : t.amount # 0 /\ t.state # CANCELED

Beforehand(account_id, transaction_id) ==
    {t \in SeededStore.transactions \cup RewrittenStore.transactions :
        t.account_id = account_id /\ t.id = transaction_id
        /\ \E u \in transactions : u.id = t.id /\ u.account_id = t.account_id}

\* C8 (as claimed): once two create_or_update_transaction calls on the same
\* account_number and the same transaction id have both completed, there is
\* exactly one row for the id, its amount, state and description are those
\* of one of the two calls, and when the row existed beforehand with
\* annotations X its annotations are X followed by both calls' lists in
\* some order.  (Ids carried by a row of another account are left to C3.)
C8_ConcurrentUpsertsSerialize ==
    \A p, q \in Procs :
        (/\ p < q /\ Quiet
         /\ Committed(p, "create_or_update_transaction")
         /\ Committed(q, "create_or_update_transaction")
         /\ proc[p].account_number = proc[q].account_number
         /\ proc[p].transaction_id = proc[q].transaction_id
         /\ \A t \in transactions :
               t.id = proc[p].transaction_id
               => \E a \in proc[p].bank_account : t.account_id = a.id)
        => \A a \in proc[p].bank_account :
              LET rows == SelectTransaction(transactions, a.id, proc[p].transaction_id)
                  A == proc[p].annotations
                  B == proc[q].annotations
              IN /\ Cardinality(rows) = 1
                 /\ \A t \in rows :
                       /\ \E c \in {p, q} :
                             /\ t.amount = proc[c].amount
                             /\ t.state = proc[c].state
                             /\ t.description = proc[c].description
                       /\ \A x \in Beforehand(a.id, proc[p].transaction_id) :
                             t.annotations \in {x.annotations \o A \o B,
                                                x.annotations \o B \o A}

\* C9 (as claimed): once all calls have completed, if the last update_balance
\* of an account to start began after the last upsert of that account
\* committed, the account's stored balance equals the calculator's result
\* over the final ledger.
C9_LastRefreshWins ==
    \A r \in Procs :
        (/\ Quiet
         /\ Committed(r, "update_balance")
         /\ proc[r].fresh
         /\ \A q \in Procs :
               (q > r /\ proc[q].op = "update_balance")
               => proc[q].account_number # proc[r].account_number)
        => \A a \in AccountOfNumber(proc[r].account_number) :
              a.balance = calculate_balance(transactions, a.id)

\* The account resolved by the call that takes the step.
OwnAccountIds(p) == {a.id : a \in proc'[p].bank_account}

\* A step of a call leaves the rows of every account other than its own, in
\* both tables, as they were (and so their calculator result).
LeavesOtherAccounts(p) ==
    \A id \in AccountIds \ OwnAccountIds(p) :
        /\ SelectTransactionsOf(transactions', id) = SelectTransactionsOf(transactions, id)
        /\ {a \in accounts' : a.id = id} = {a \in accounts : a.id = id}
        /\ calculate_balance(transactions', id) = calculate_balance(transactions, id)

Fails(p) == Acts(p) /\ proc'[p].pc = "done" /\ proc'[p].outcome = IntegrityError

\* C10 (as claimed): a call for account A, in any interleaving, leaves every
\* other account's transactions, stored balance and calculator result as
\* they were, and its own outcome does not depend on another account's
\* ledger: it fails on a write only over a row of its own account.
C10_AccountsIndependent ==
    [][\A p \in Procs :
        Acts(p) =>
            /\ LeavesOtherAccounts(p)
            /\ Fails(p) =>
                  \E t \in transactions :
                      /\ t.id = proc'[p].transaction_id
                      /\ t.account_id \in OwnAccountIds(p)]_vars

\* C10 (amended): a call for account A, in any interleaving, leaves every
\* other account's transactions, stored balance and calculator result as
\* they were; its own outcome depends on another account's ledger in one
\* way only: transaction ids are unique over all accounts, so a
\* create_or_update_transaction that found no row under (A, id) fails with
\* an integrity error, changing nothing, exactly when some row of any
\* account carries the id at its commit.
C10_AccountsIndependentButIds ==
    [][\A p \in Procs :
        Acts(p) =>
            /\ LeavesOtherAccounts(p)
            /\ Fails(p) => UNCHANGED <<accounts, transactions>>
            /\ proc[p].pc = "commit_transaction" =>
                  (Fails(p) <=>
                      /\ proc[p].loaded = {}
                      /\ \E t \in transactions : t.id = proc[p].transaction_id)]_vars

\* C10 witness: a create_or_update_transaction for account number 1 has
\* rewritten a row and one for account number 2 has been refused over an id
\* of account 1.
C10_Witness ==
    \E p, q \in Procs :
        /\ Committed(p, "create_or_update_transaction")
        /\ proc[p].account_number = 1 /\ proc[p].outcome = Ok
        /\ proc[p].loaded # {}
        /\ Committed(q, "create_or_update_transaction")
        /\ proc[q].account_number = 2 /\ proc[q].outcome = IntegrityError
        /\ \E t \in transactions : t.account_id = 1 /\ t.description = "d"

\* ------------------------------------------------ claims on SpecRegistry
\* The registry call that takes the step, and the rows carrying its swift.
BankActs(p) == bank_calls'[p] # bank_calls[p]
RowsOfSwift(p) == {r \in banks : r.swift = bank_calls'[p].dto.swift}

\* C15: after any sequence of register_bank and update_bank calls, in any
\* interleaving of their steps, no two rows of the bank table share a swift;
\* register_bank with a swift that is registered raises
\* SwiftAlreadyExistException and leaves the table as it was, and a
\* register_bank that commits adds its one row or, refused, nothing;
\* update_bank changes nothing but the name and bank_metadata of the one row
\* with that swift, each to the payload's value or left as it is, and both to
\* the payload's when no other call has written the row since it was loaded.
C15_SwiftStaysUnique ==
    [][/\ \A b, c \in banks' : b.swift = c.swift => b = c
       /\ \A p \in BankCalls :
            BankActs(p) =>
                /\ (bank_calls[p].pc \in {"idle", "done"} /\ bank_calls'[p].op = "register_bank"
                    /\ RowsOfSwift(p) # {})
                   => /\ bank_calls'[p].pc = "done"
                      /\ bank_calls'[p].outcome = SwiftAlreadyExistException
                      /\ banks' = banks
                /\ bank_calls[p].pc = "register_commit"
                   => IF bank_calls'[p].outcome = Ok
                      THEN /\ RowsOfSwift(p) = {}
                           /\ \E b \in banks' \ banks :
                                 /\ banks' = banks \cup {b}
                                 /\ b.swift = bank_calls[p].dto.swift
                                 /\ b.name = bank_calls[p].dto.name
                                 /\ b.bank_metadata = bank_calls[p].dto.bank_metadata
                      ELSE banks' = banks
                /\ bank_calls[p].pc \in {"idle", "done"} => banks' = banks
                /\ bank_calls[p].pc = "update_commit"
                   => \E b \in RowsOfSwift(p) :
                         /\ \E name \in {b.name, bank_calls[p].dto.name}, bank_metadata \in {b.bank_metadata, bank_calls[p].dto.bank_metadata} :
                               banks' = (banks \ {b}) \cup
                                   {[b EXCEPT !.name = name,
                                              !.bank_metadata = bank_metadata]}
                         /\ bank_calls[p].loaded = {b}
                            => banks' = (banks \ {b}) \cup
                                   {[b EXCEPT !.name = bank_calls[p].dto.name,
                                              !.bank_metadata = bank_calls[p].dto.bank_metadata]}]_vars

\* C15 witness: two banks are registered, one of them renamed by update_bank
\* and given other metadata, and a register_bank of a registered swift has
\* been refused.
C15_Witness ==
    /\ Cardinality(banks) = 2
    /\ \E p, q \in BankCalls :
          /\ bank_calls[p].op = "register_bank" /\ bank_calls[p].pc = "done"
          /\ bank_calls[p].outcome = SwiftAlreadyExistException
          /\ bank_calls[q].op = "update_bank" /\ bank_calls[q].pc = "done"
          /\ bank_calls[q].outcome = Ok
          /\ \E b \in banks :
                /\ b.swift = bank_calls[q].dto.swift
                /\ b.name = "renamed" /\ b.bank_metadata = [country |-> "US"]

====
